---- MODULE Spec2Model ----
(***************************************************************************)
(* The disk-backed search cache (src/src/utils/cache.py) and the three     *)
(* read-through search providers built on it (src/src/tools/*.py).         *)
(*                                                                         *)
(* The cache directory is a partial map from file names to file contents.  *)
(* A file content is the text json.dump wrote, kept as a sequence of JSON  *)
(* tokens, so that a truncated write is a real prefix of the text and      *)
(* json.load is a real parse of it.                                        *)
(***************************************************************************)
EXTENDS Naturals, Sequences, FiniteSets, TLC

VARIABLES
    files,      \* CACHE_DIR: [file name -> file content], the *.json files present
    stored,     \* ghost: (tool, key) -> the last store that wrote to the pair's file
    last,       \* ghost: what the most recent operation was given and what it returned
    fn,         \* a function of the program applied on its own: its input and its result
    race,       \* two concurrent calls of one provider: each call's position and locals
    run         \* one run of the program: main() and run_pipeline()

vars == <<files, stored, last, fn, race, run>>

----------------------------------------------------------------------------
(* Bounds of the model *)

\* At most this many cache files exist at once (the cache itself is unbounded).
MaxFiles == 2

----------------------------------------------------------------------------
(* Python values *)

\* Optional[str]: None, or a string.
NoneV == [some |-> FALSE, v |-> ""]
Some(s) == [some |-> TRUE, v |-> s]

\* str(n) of a non-negative int.
Digit(d) == <<"0", "1", "2", "3", "4", "5", "6", "7", "8", "9">>[d + 1]

RECURSIVE PyStrInt(_)
PyStrInt(n) == IF n < 10 THEN Digit(n) ELSE PyStrInt(n \div 10) \o Digit(n % 10)

\* str(b) of a bool, as an f-string formats it.
PyStrBool(b) == IF b THEN "True" ELSE "False"

\* str(o) of an Optional[str], as an f-string formats it: None prints as "None".
PyStrOpt(o) == IF o.some THEN o.v ELSE "None"

\* safe_str: None becomes the empty string, anything else its str().
\* Faulty variant: str(value) whatever the value is.
safe_str_plain(o) == IF o.some THEN o.v ELSE "None"

safe_str(o) == IF o.some THEN o.v ELSE ""

\* The characters of the texts given to sanitize_filename, and those of them
\* for which str.isalnum() is true. A text is the sequence of its characters.
Chars == {"a", "7", "e-acute", " ", "/", "_"}
isalnum(c) == c \in {"a", "7", "e-acute"}

\* seq[:stop] for stop >= 0.
SliceTo(seq, stop) == SubSeq(seq, 1, IF stop < Len(seq) THEN stop ELSE Len(seq))

\* Faulty variant: the other characters are dropped.
sanitize_filename_drop(text, max_length) ==
    SliceTo(SelectSeq(text, isalnum), max_length)

\* sanitize_filename(text, max_length)
sanitize_filename(text, max_length) ==
    LET sanitized == [i \in 1..Len(text) |-> IF isalnum(text[i]) THEN text[i] ELSE "_"]
    IN  SliceTo(sanitized, max_length)

----------------------------------------------------------------------------
(* The inputs the model draws from *)

Tools == {"web_search", "openalex", "crossref"}
Queries == {"solar"}
MaxResultsSet == {2, 3}
ExactSet == {FALSE}
FilterFields == {NoneV}
FilterTypes == {NoneV}
RowsSet == {2, 3}

----------------------------------------------------------------------------
(* Cache keys and paths *)

\* hashlib.md5(s.encode()).hexdigest(), tabulated for the key strings of the model.
md5_collide(s) == "e2cf1817f9bb7713307949ada414cb68"

md5(s) ==
    CASE s = "solar" -> "e2cf1817f9bb7713307949ada414cb68"
      [] s = "solar_False_None" -> "381a296a1748cd718862f6295e5d99c0"
      [] s = "solar_False_title" -> "acd121cb505add689a208528f7869f35"
      [] s = "solar_None_1" -> "6dff0b7baa426aac9375cae8a866d409"
      [] s = "solar_None_2" -> "eadf37d52ce2feec0b968b8ac0de1ff0"
      [] s = "solar_None_3" -> "e4be57208dda6a2a93d3a25f05027df0"
      [] s = "solar_True_None" -> "7d0222d290a1840c49e61b08ab7ab953"
      [] s = "solar_True_title" -> "4bf1b7a39ada982a4904ab34782d8697"
      [] s = "solar_book_1" -> "161a222f6605ab86169cef640617dc71"
      [] s = "solar_book_2" -> "bcddd839eaafac62dfa81d3bb6351baa"
      [] s = "solar_book_3" -> "8ee7632844b928a81d427fecf52c4524"
      [] s = "wind" -> "7e25b972e192b01004b62346ee9975a5"
      [] s = "wind_False_None" -> "0b456205ed0575804c45459967d27b36"
      [] s = "wind_False_title" -> "3a22a843b60b4411ff0c3ab459c8666b"
      [] s = "wind_None_1" -> "0c7953bc1e6246ad86fdd7c293311dbe"
      [] s = "wind_None_2" -> "effcd200b9bc2fc1e01da5999a5399d6"
      [] s = "wind_None_3" -> "8676905e82d0722da98e6b67daab44cb"
      [] s = "wind_True_None" -> "0b20f5b65d4f05f91c551882fb8e073f"
      [] s = "wind_True_title" -> "82894a72d6f5d5639beecbb8e0bbb8a6"
      [] s = "wind_book_1" -> "db81bb8422f98233694abc745452d880"
      [] s = "wind_book_2" -> "f6f5adb6becdd1bf17ffaa5e2f26e57a"
      [] s = "wind_book_3" -> "cefefdb6c2942b82120a4c22f63eb51c"

\* CACHE_DIR / f"{tool_name}_{query_hash}.json"
get_cache_path(tool_name, query) == tool_name \o "_" \o md5(query) \o ".json"

\* web_search passes the bare query as its cache key.
web_cache_key(query, max_results) == query

\* openalex_search: f"{query}_{exact_phrase}_{filter_field}"
openalex_cache_key(query, exact_phrase, filter_field, max_results) ==
    query \o "_" \o PyStrBool(exact_phrase) \o "_" \o PyStrOpt(filter_field)

\* crossref_search: f"{query}_{filter_type}_{rows}"
crossref_cache_key(query, filter_type, rows) ==
    query \o "_" \o PyStrOpt(filter_type) \o "_" \o PyStrInt(rows)

\* The parameter tuples of the three providers.
WebParams == Queries \X MaxResultsSet
OpenAlexParams == Queries \X ExactSet \X FilterFields \X MaxResultsSet
CrossrefParams == Queries \X FilterTypes \X RowsSet

\* The (tool, key) pairs the providers use.
Pairs ==
    {<<"web_search", web_cache_key(p[1], p[2])>> : p \in WebParams}
    \cup {<<"openalex", openalex_cache_key(p[1], p[2], p[3], p[4])>> : p \in OpenAlexParams}
    \cup {<<"crossref", crossref_cache_key(p[1], p[2], p[3])>> : p \in CrossrefParams}

\* get_cache_path, tabulated once over the pairs of the model.
CachePathTable == [pair \in Pairs |-> get_cache_path(pair[1], pair[2])]
PathOf(pair) == CachePathTable[pair]

----------------------------------------------------------------------------
(* JSON text *)

\* A token of the text: punctuation, a string literal, or bytes that decode
\* to no character.
Punct(c) == <<"punct", c>>
StrTok(s) == <<"str", s>>
BadByte == <<"bytes", "ff">>

\* The field order of a record: json.dump writes a dict in insertion order,
\* which is the order of the dict literal that built it.
FieldOrder ==
    <<"title", "url", "snippet", "authors", "publication_date", "journal",
      "publisher", "source">>

FieldsOf(rec) == SelectSeq(FieldOrder, LAMBDA f : f \in DOMAIN rec)

RECURSIVE DumpFields(_, _)
DumpFields(rec, fs) ==
    IF fs = <<>> THEN <<>>
    ELSE <<StrTok(Head(fs)), Punct(":"), StrTok(rec[Head(fs)])>>
         \o (IF Len(fs) > 1 THEN <<Punct(",")>> ELSE <<>>)
         \o DumpFields(rec, Tail(fs))

DumpObject(rec) == <<Punct("{")>> \o DumpFields(rec, FieldsOf(rec)) \o <<Punct("}")>>

RECURSIVE DumpItems(_)
DumpItems(results) ==
    IF results = <<>> THEN <<>>
    ELSE DumpObject(Head(results))
         \o (IF Len(results) > 1 THEN <<Punct(",")>> ELSE <<>>)
         \o DumpItems(Tail(results))

\* json.dump(results, f): the whole text of a list of dicts of strings.
JsonDumpDropLast(results) ==
    <<Punct("[")>>
    \o DumpItems(IF results = <<>> THEN <<>> ELSE SubSeq(results, 1, Len(results) - 1))
    \o <<Punct("]")>>

JsonDump(results) == <<Punct("[")>> \o DumpItems(results) \o <<Punct("]")>>

\* The parse of one object starting at token i: [ok, val, next].
ParseFail == [ok |-> FALSE, val |-> <<>>, next |-> 0]

Tok(toks, i) == IF i \in 1..Len(toks) THEN toks[i] ELSE <<"eof", "">>

RECURSIVE ParseMembers(_, _, _)
ParseMembers(toks, i, acc) ==
    IF Tok(toks, i)[1] = "str" /\ Tok(toks, i + 1) = Punct(":") /\ Tok(toks, i + 2)[1] = "str"
    THEN LET acc2 == [f \in DOMAIN acc \cup {Tok(toks, i)[2]} |->
                        IF f = Tok(toks, i)[2] THEN Tok(toks, i + 2)[2] ELSE acc[f]]
         IN  IF Tok(toks, i + 3) = Punct(",") THEN ParseMembers(toks, i + 4, acc2)
             ELSE IF Tok(toks, i + 3) = Punct("}")
                  THEN [ok |-> TRUE, val |-> acc2, next |-> i + 4]
                  ELSE ParseFail
    ELSE ParseFail

EmptyDict == [f \in {} |-> ""]

ParseObject(toks, i) ==
    IF Tok(toks, i) # Punct("{") THEN ParseFail
    ELSE IF Tok(toks, i + 1) = Punct("}")
         THEN [ok |-> TRUE, val |-> EmptyDict, next |-> i + 2]
         ELSE ParseMembers(toks, i + 1, EmptyDict)

RECURSIVE ParseElements(_, _, _)
ParseElements(toks, i, acc) ==
    LET o == ParseObject(toks, i)
    IN  IF ~o.ok THEN ParseFail
        ELSE IF Tok(toks, o.next) = Punct(",")
             THEN ParseElements(toks, o.next + 1, Append(acc, o.val))
             ELSE IF Tok(toks, o.next) = Punct("]")
                  THEN [ok |-> TRUE, val |-> Append(acc, o.val), next |-> o.next + 1]
                  ELSE ParseFail

\* json.loads of a decoded text: the list it denotes, or JSONDecodeError.
\* Anything after the closing bracket is "Extra data", an error too.
JsonParse(toks) ==
    LET r == IF Tok(toks, 1) # Punct("[") THEN ParseFail
             ELSE IF Tok(toks, 2) = Punct("]")
                  THEN [ok |-> TRUE, val |-> <<>>, next |-> 3]
                  ELSE ParseElements(toks, 2, <<>>)
    IN  IF r.ok /\ r.next = Len(toks) + 1 THEN r ELSE ParseFail

\* f.read() of a file opened in text mode raises UnicodeDecodeError when the
\* bytes are not valid in the locale's encoding.
Decodable(toks) == \A i \in 1..Len(toks) : toks[i][1] # "bytes"

----------------------------------------------------------------------------
(* Upstream responses *)

\* What the upstream request of a provider call does: it raises (a network
\* error, a non-2xx status at raise_for_status(), a body json() cannot parse),
\* with str(e) as msg, or it yields the payload's items.
UpstreamFailures ==
    { [st |-> "neterr", msg |-> "", items |-> <<>>],
      [st |-> "http", msg |-> "500 Server Error", items |-> <<>>],
      [st |-> "malformed", msg |-> "Expecting value", items |-> <<>>] }
UpstreamOk(items) == [st |-> "ok", msg |-> "", items |-> items]

\* Python truthiness of an Optional[str]: None and "" are falsy.
Truthy(o) == o.some /\ o.v # ""

RECURSIVE Join(_, _)
Join(strs, sep) ==
    IF strs = <<>> THEN ""
    ELSE IF Len(strs) = 1 THEN Head(strs)
    ELSE Head(strs) \o sep \o Join(Tail(strs), sep)

\* Faulty variant: every name is listed.
format_authors_all(authors) == Join(authors, ", ")

\* authors_str: the first three names, then how many were left out.
format_authors(authors) ==
    Join(SubSeq(authors, 1, IF Len(authors) < 3 THEN Len(authors) ELSE 3), ", ")
    \o (IF Len(authors) > 3 THEN " and " \o PyStrInt(Len(authors) - 3) \o " more" ELSE "")

\* str(e) of the exceptions a provider's except branch may be given: those of
\* the upstream failures and that of a cache write that raised.
ErrorMessages == {f.msg : f \in UpstreamFailures} \cup {"write failed"}

----------------------------------------------------------------------------
(* src/src/tools/web_search.py *)

\* One DuckDuckGo hit r: r.get("title"), r.get("href"), r.get("body").
WebHit1 == [title |-> Some("Sun"), href |-> Some("http://sun"), body |-> NoneV]
WebHit2 == [title |-> NoneV, href |-> Some("http://pv"), body |-> Some("cells")]
WebPayloads == {<<>>, <<WebHit1, WebHit2>>}

web_format(r) ==
    [title |-> safe_str(r.title), url |-> safe_str(r.href),
     snippet |-> safe_str(r.body), source |-> "DuckDuckGo"]

web_search_results(raw_results) ==
    [i \in 1..Len(raw_results) |-> web_format(raw_results[i])]

\* The except branch of web_search.
web_search_error_bare(msg) ==
    <<[title |-> "Search Error", url |-> "", snippet |-> msg, source |-> "Error"]>>

web_search_error(msg) ==
    <<[title |-> "Search Error", url |-> "",
       snippet |-> "Error performing web search: " \o msg, source |-> "Error"]>>

----------------------------------------------------------------------------
(* src/src/tools/openalex_search.py *)

\* One work of the payload. authorships: each author's display_name, None
\* when the author or the name is missing. abstract: None, or the inverted
\* index as (word, positions) in the dict's order.
Work1 ==
    [authorships |-> <<Some("Ada"), NoneV, Some("Bo"), Some("Cy"), Some("Di")>>,
     doi |-> Some("10.1/x"), landing |-> Some("http://land"), title |-> Some("PV"),
     abstract |-> [some |-> TRUE, index |-> <<<<"alpha", <<0, 2>>>>, <<"beta", <<1>>>>>>],
     publication_date |-> Some("2020-01-02")]
Work2 ==
    [authorships |-> <<>>, doi |-> NoneV, landing |-> Some("http://land2"),
     title |-> NoneV, abstract |-> [some |-> FALSE, index |-> <<>>],
     publication_date |-> NoneV]
OpenAlexPayloads == {<<>>, <<Work1, Work2>>}

RECURSIVE Pad(_, _)
Pad(words, position) ==
    IF Len(words) <= position THEN Pad(Append(words, ""), position) ELSE words

\* for position in positions: pad, then abstract_words[position] = word.
\* Faulty variant: only the first position of a word is filled.
PlaceWordFirst(words, word, positions) ==
    IF positions = <<>> THEN words
    ELSE [Pad(words, Head(positions)) EXCEPT ![Head(positions) + 1] = word]

RECURSIVE PlaceWord(_, _, _)
PlaceWord(words, word, positions) ==
    IF positions = <<>> THEN words
    ELSE PlaceWord([Pad(words, Head(positions)) EXCEPT ![Head(positions) + 1] = word],
                   word, Tail(positions))

RECURSIVE PlaceAll(_, _)
PlaceAll(words, index) ==
    IF index = <<>> THEN words
    ELSE PlaceAll(PlaceWord(words, Head(index)[1], Head(index)[2]), Tail(index))

\* The abstract rebuilt from its inverted index.
reconstruct_abstract(index) == Join(PlaceAll(<<>>, index), " ")

\* Faulty variant: the landing page is preferred to the DOI.
openalex_url_landing_first(work) ==
    IF Truthy(work.landing) THEN safe_str(work.landing)
    ELSE IF Truthy(work.doi) THEN "https://doi.org/" \o work.doi.v
    ELSE ""

\* url: work.get("doi"), else the landing_page_url of primary_location.
openalex_url(work) ==
    IF Truthy(work.doi) THEN "https://doi.org/" \o work.doi.v
    ELSE IF Truthy(work.landing) THEN safe_str(work.landing)
    ELSE ""

openalex_format(work) ==
    [title |-> safe_str(work.title),
     url |-> openalex_url(work),
     snippet |-> IF work.abstract.some THEN reconstruct_abstract(work.abstract.index)
                 ELSE "No abstract available",
     publication_date |-> safe_str(work.publication_date),
     authors |-> LET named == SelectSeq(work.authorships, Truthy)
                 IN  format_authors([i \in 1..Len(named) |-> safe_str(named[i])]),
     source |-> "OpenAlex"]

openalex_search_results(works) == [i \in 1..Len(works) |-> openalex_format(works[i])]

\* The except branch of openalex_search.
openalex_search_error(msg) ==
    <<[title |-> "Search Error", url |-> "",
       snippet |-> "Error performing OpenAlex search: " \o msg, source |-> "Error"]>>

----------------------------------------------------------------------------
(* src/src/tools/crossref_search.py *)

\* One item of the payload. author: each author's "given" and "family", None
\* when the key is missing. print, online: the "date-parts" (a list of lists)
\* of published-print and published-online; some is false when the key is
\* missing, the list is empty when the object holds no date-parts.
\* container, title: lists.
Item1 ==
    [author |-> <<[given |-> Some("Ada"), family |-> Some("Low")],
                  [given |-> NoneV, family |-> NoneV],
                  [given |-> NoneV, family |-> Some("Bo")]>>,
     print |-> [some |-> TRUE, date_parts |-> <<<<2020, 5>>>>],
     online |-> [some |-> TRUE, date_parts |-> <<<<2019>>>>],
     container |-> <<"J. Sun">>, publisher |-> Some("ACM"), title |-> <<"PV">>,
     DOI |-> Some("10.1/x"), abstract |-> NoneV]
Item2 ==
    [author |-> <<>>, print |-> [some |-> FALSE, date_parts |-> <<>>],
     online |-> [some |-> TRUE, date_parts |-> <<<<2021, 11, 3>>>>],
     container |-> <<>>, publisher |-> NoneV, title |-> <<>>,
     DOI |-> NoneV, abstract |-> Some("abs")]
CrossrefPayloads == {<<>>, <<Item1, Item2>>}

crossref_author_name(author) ==
    Join((IF author.given.some THEN <<safe_str(author.given)>> ELSE <<>>)
         \o (IF author.family.some THEN <<safe_str(author.family)>> ELSE <<>>), " ")

\* Faulty variant: the online date is preferred to the print date.
crossref_pub_date_online_first(item) ==
    LET date_parts == IF item.online.some /\ item.online.date_parts # <<>>
                      THEN item.online.date_parts[1]
                      ELSE IF item.print.some /\ item.print.date_parts # <<>>
                      THEN item.print.date_parts[1]
                      ELSE <<>>
    IN  Join([i \in 1..Len(date_parts) |-> PyStrInt(date_parts[i])], "-")

\* pub_date: the first date-parts of published-print, else of
\* published-online, its parts joined by "-".
crossref_pub_date(item) ==
    LET date_parts == IF item.print.some /\ item.print.date_parts # <<>>
                      THEN item.print.date_parts[1]
                      ELSE IF item.online.some /\ item.online.date_parts # <<>>
                      THEN item.online.date_parts[1]
                      ELSE <<>>
    IN  IF date_parts # <<>>
        THEN Join([i \in 1..Len(date_parts) |-> PyStrInt(date_parts[i])], "-")
        ELSE ""

crossref_format(item) ==
    LET container == IF item.container # <<>> THEN Head(item.container) ELSE ""
        publisher == safe_str(item.publisher)
        abstract == safe_str(item.abstract)
    IN  [title |-> IF item.title # <<>> THEN Head(item.title) ELSE "",
         url |-> IF item.DOI.some THEN "https://doi.org/" \o item.DOI.v ELSE "",
         snippet |-> IF abstract # "" THEN abstract
                     ELSE IF container # "" THEN "Published in " \o container
                     ELSE IF publisher # "" THEN "Published by " \o publisher
                     ELSE "",
         authors |-> LET named == SelectSeq(item.author,
                                            LAMBDA a : a.given.some \/ a.family.some)
                     IN  format_authors([i \in 1..Len(named) |->
                                            crossref_author_name(named[i])]),
         publication_date |-> crossref_pub_date(item),
         journal |-> container,
         publisher |-> publisher,
         source |-> "CrossRef"]

crossref_search_results(items) == [i \in 1..Len(items) |-> crossref_format(items[i])]

\* The except branch of crossref_search.
crossref_search_error(msg) ==
    <<[title |-> "Search Error", url |-> "",
       snippet |-> "Error performing CrossRef search: " \o msg, source |-> "Error"]>>

----------------------------------------------------------------------------
(* Tables: the operators above, tabulated once over the values of the model *)

WebResults == [p \in WebPayloads |-> web_search_results(p)]
OpenAlexResults == [p \in OpenAlexPayloads |-> openalex_search_results(p)]
CrossrefResults == [p \in CrossrefPayloads |-> crossref_search_results(p)]

\* The error record of each provider for each message, tabulated.
WebErrors == [msg \in ErrorMessages |-> web_search_error(msg)]
OpenAlexErrors == [msg \in ErrorMessages |-> openalex_search_error(msg)]
CrossrefErrors == [msg \in ErrorMessages |-> crossref_search_error(msg)]

\* Every result list a provider can build.
AllValues ==
    {WebResults[p] : p \in WebPayloads}
    \cup {OpenAlexResults[p] : p \in OpenAlexPayloads}
    \cup {CrossrefResults[p] : p \in CrossrefPayloads}

DumpTable == [v \in AllValues |-> JsonDump(v)]

\* Every content a cache file can have: a text json.dump wrote, such a text
\* with its end missing, or bytes that decode to no character.
AllTexts ==
    {DumpTable[v] : v \in AllValues}
    \cup {SubSeq(DumpTable[v], 1, Len(DumpTable[v]) - 1) : v \in AllValues}
    \cup {<<BadByte>>}

ParseTable == [t \in AllTexts |-> JsonParse(t)]

\* json.dump(results, f) and json.load(f), by table.
json_dump(results) == DumpTable[results]
json_load(text) == ParseTable[text]

----------------------------------------------------------------------------
(* src/src/utils/cache.py *)

\* What a call returns: a value, None, or an exception that propagates.
Value(v) == [st |-> "value", val |-> v]
None == [st |-> "none", val |-> <<>>]
Raised == [st |-> "raise", val |-> <<>>]

\* load_from_cache(tool_name, query) on directory fs. readFault: open() or
\* read() fails with an OSError.
load_from_cache(fs, tool_name, query, readFault) ==
    LET cache_path == PathOf(<<tool_name, query>>)
    IN  IF cache_path \in DOMAIN fs
        THEN IF readFault THEN None                      \* except IOError
             ELSE IF ~Decodable(fs[cache_path]) THEN Raised  \* UnicodeDecodeError: not caught
             ELSE IF json_load(fs[cache_path]).ok
                  THEN Value(json_load(fs[cache_path]).val)
                  ELSE None                              \* except json.JSONDecodeError
        ELSE None

\* The ways the write of a cache file fails: not at all, at open() (the file
\* is left as it was), or in the middle of json.dump, after open() truncated
\* the file (the last of the text is missing).
WriteFaults == {"none", "open", "mid"}

Put(fs, path, text) == [p \in DOMAIN fs \cup {path} |-> IF p = path THEN text ELSE fs[p]]

\* The directory after save_to_cache(tool_name, query, results).
FilesAfterSave(fs, tool_name, query, results, writeFault) ==
    LET cache_path == PathOf(<<tool_name, query>>)
        text == json_dump(results)
    IN  CASE writeFault = "none" -> Put(fs, cache_path, text)
          [] writeFault = "open" -> fs
          [] writeFault = "mid" -> Put(fs, cache_path, SubSeq(text, 1, Len(text) - 1))

\* How save_to_cache ends: every write failure is an OSError, which it swallows.
save_propagates(writeFault) == IF writeFault = "none" THEN "ok" ELSE "raise"

save_to_cache(writeFault) == IF writeFault = "none" THEN "ok" ELSE "swallowed"

\* The loop of clear_cache over the files glob() yielded, in that order;
\* failing: the files whose unlink() raises. [count, removed, raised].
RECURSIVE ClearLoop(_, _, _, _)
ClearLoop(order, failing, count, removed) ==
    IF order = <<>> THEN [count |-> count, removed |-> removed, raised |-> FALSE]
    ELSE IF Head(order) \in failing
         THEN ClearLoop(Tail(order), failing, count, removed)      \* except: pass
         ELSE ClearLoop(Tail(order), failing, count + 1, removed \cup {Head(order)})

\* The orders in which glob() may yield the files of a set.
Orders(S) ==
    {o \in [1..Cardinality(S) -> S] : \A i, j \in 1..Cardinality(S) : o[i] = o[j] => i = j}

Restrict(f, D) == [x \in D |-> f[x]]

----------------------------------------------------------------------------
(* The state machine *)

\* The record of an operation; each action fills in what it used.
Blank ==
    [op |-> "init", tool |-> "", key |-> "", params |-> <<>>,
     rf |-> FALSE, wf |-> "none", up |-> "none", msg |-> "",
     cached |-> None, net |-> FALSE, hit |-> FALSE, fresh |-> <<>>, ret |-> None,
     shares |-> FALSE, follows |-> FALSE, prevRet |-> None,
     count |-> 0, before |-> {}, failed |-> {}]

EmptyMap == [x \in {} |-> <<>>]

Init ==
    /\ files = EmptyMap
    /\ stored = EmptyMap
    /\ last = Blank

\* A write may create a file only while the directory holds fewer than MaxFiles.
CanWrite(path) == path \in DOMAIN files \/ Cardinality(DOMAIN files) < MaxFiles

\* The ghost of the stores: for each pair a store wrote to disk for (since
\* its file was last deleted), the value of the last such store and whether
\* the write completed and nothing damaged the file since.
Intact(v) == [val |-> v, intact |-> TRUE]
Damaged == [val |-> <<>>, intact |-> FALSE]

StoredAfterSave(pair, results, writeFault) ==
    IF writeFault = "open" THEN stored
    ELSE [q \in DOMAIN stored \cup {pair} |->
            IF q = pair THEN (IF writeFault = "none" THEN Intact(results) ELSE Damaged)
            ELSE stored[q]]

\* save_to_cache(tool_name, query, results), called directly.
Store(pair, results, writeFault) ==
    /\ CanWrite(PathOf(pair))
    /\ files' = FilesAfterSave(files, pair[1], pair[2], results, writeFault)
    /\ stored' = StoredAfterSave(pair, results, writeFault)
    /\ last' = [Blank EXCEPT !.op = "store", !.tool = pair[1], !.key = pair[2],
                             !.wf = writeFault, !.fresh = results,
                             !.ret = IF save_to_cache(writeFault) = "raise" THEN Raised ELSE None]

\* load_from_cache(tool_name, query), called directly.
Lookup(pair, readFault) ==
    /\ readFault => PathOf(pair) \in DOMAIN files
    /\ last' = [Blank EXCEPT !.op = "lookup", !.tool = pair[1], !.key = pair[2],
                             !.rf = readFault,
                             !.ret = load_from_cache(files, pair[1], pair[2], readFault)]
    /\ UNCHANGED <<files, stored>>

\* clear_cache(): glob() yields the files in some order, unlink() fails for some.
\* Faulty variants: the failure of an unlink() ends the loop and propagates; the
\* return sits inside the loop.
clear_cache_abort(order, failing) ==
    LET stops == {i \in 1..Len(order) : order[i] \in failing}
        done == IF stops = {} THEN Len(order)
                ELSE (CHOOSE i \in stops : \A j \in stops : i <= j) - 1
    IN  [ClearLoop(SubSeq(order, 1, done), failing, 0, {}) EXCEPT !.raised = stops # {}]

clear_cache_return_in_loop(order, failing) ==
    ClearLoop(SubSeq(order, 1, IF Len(order) < 1 THEN Len(order) ELSE 1), failing, 0, {})

clear_cache(order, failing) == ClearLoop(order, failing, 0, {})

Clear(order, failing) ==
    LET r == clear_cache(order, failing)
        left == DOMAIN files \ r.removed
    IN  /\ files' = Restrict(files, left)
        /\ stored' = Restrict(stored, {q \in DOMAIN stored : PathOf(q) \in left})
        /\ last' = [Blank EXCEPT !.op = "clear", !.count = r.count,
                                 !.before = DOMAIN files, !.failed = failing,
                                 !.ret = IF r.raised THEN Raised ELSE None]

\* The environment damages a cache file: bytes that decode to no character
\* end up in it.
Corrupt(path) ==
    /\ files[path] # <<BadByte>>
    /\ files' = [files EXCEPT ![path] = <<BadByte>>]
    /\ stored' = [q \in DOMAIN stored |-> IF PathOf(q) = path THEN Damaged ELSE stored[q]]
    /\ last' = [Blank EXCEPT !.op = "corrupt"]

\* Faulty variant: the except branch stores the error record it returns.
files_after_error_saved(fs, tool_name, query, error) ==
    Put(fs, PathOf(<<tool_name, query>>), JsonDump(error))

\* The cache directory after the except branch of a provider: the branch
\* returns the error record and calls nothing.
files_after_error(fs, tool_name, query, error) == fs

\* Faulty variant: web_search tests the loaded value against None.
web_cached_hit_not_none(cached) == cached.st = "value"

\* if cached_results: at each provider's call site. An empty list is falsy.
web_cached_hit(cached) == cached.st = "value" /\ cached.val # <<>>
openalex_cached_hit(cached) == cached.st = "value" /\ cached.val # <<>>
crossref_cached_hit(cached) == cached.st = "value" /\ cached.val # <<>>

cached_hit(op, cached) ==
    CASE op = "web_search" -> web_cached_hit(cached)
      [] op = "openalex_search" -> openalex_cached_hit(cached)
      [] op = "crossref_search" -> crossref_cached_hit(cached)

\* The body shared by the three providers: consult the cache, return what it
\* holds if that is truthy, otherwise ask upstream, store and return the
\* transformed results, or return the error record when anything raised.
\* call: the provider, its parameters and cache key, what upstream may do,
\* results: the transformation of each payload, error: the except branch.
ReadThrough(call) ==
    LET path == PathOf(<<call.tool, call.key>>)
    IN  \E readFault \in IF path \in DOMAIN files THEN BOOLEAN ELSE {FALSE} :
        LET cached == load_from_cache(files, call.tool, call.key, readFault)
            hit == cached_hit(call.op, cached)
            prevStored == /\ last.op = call.op
                          /\ last.net /\ last.up = "ok" /\ last.wf = "none"
            rec == [Blank EXCEPT !.op = call.op, !.tool = call.tool, !.key = call.key,
                                 !.params = call.params, !.rf = readFault,
                                 !.cached = cached, !.hit = hit,
                                 !.shares = /\ hit /\ prevStored
                                            /\ last.params # call.params
                                            /\ last.params[1] = call.params[1]
                                            /\ PathOf(<<last.tool, last.key>>) = path,
                                 !.follows = prevStored /\ last.params = call.params,
                                 !.prevRet = IF prevStored /\ last.params = call.params
                                             THEN last.ret ELSE None]
        IN  IF cached.st = "raise"
            THEN /\ last' = [rec EXCEPT !.ret = Raised]
                 /\ UNCHANGED <<files, stored>>
            ELSE IF hit
            THEN /\ last' = [rec EXCEPT !.ret = cached]
                 /\ UNCHANGED <<files, stored>>
            ELSE \E up \in call.upstreams :
                 IF up.st # "ok"
                 THEN /\ last' = [rec EXCEPT !.net = TRUE, !.up = up.st, !.msg = up.msg,
                                             !.ret = Value(call.error[up.msg])]
                      /\ files' = files_after_error(files, call.tool, call.key,
                                                    call.error[up.msg])
                      /\ UNCHANGED stored
                 ELSE /\ CanWrite(path)
                      /\ \E writeFault \in WriteFaults :
                         LET results == call.results[up.items]
                         IN  /\ files' = FilesAfterSave(files, call.tool, call.key,
                                                        results, writeFault)
                             /\ stored' = StoredAfterSave(<<call.tool, call.key>>,
                                                          results, writeFault)
                             /\ last' = [rec EXCEPT !.net = TRUE, !.up = up.st,
                                            !.wf = writeFault, !.fresh = results,
                                            !.ret = IF save_to_cache(writeFault) = "raise"
                                                    THEN Value(call.error["write failed"])
                                                    ELSE Value(results)]

\* What upstream may do for a request capped at cap results.
Upstreams(payloads, cap) ==
    UpstreamFailures \cup {UpstreamOk(items) : items \in {i \in payloads : Len(i) <= cap}}

\* web_search(query, max_results)
WebSearch(query, max_results) ==
    ReadThrough([op |-> "web_search", tool |-> "web_search",
                 params |-> <<query, max_results>>,
                 key |-> web_cache_key(query, max_results),
                 upstreams |-> Upstreams(WebPayloads, max_results),
                 results |-> WebResults, error |-> WebErrors])

\* openalex_search(query, exact_phrase, filter_field, max_results)
OpenAlexSearch(query, exact_phrase, filter_field, max_results) ==
    ReadThrough([op |-> "openalex_search", tool |-> "openalex",
                 params |-> <<query, exact_phrase, filter_field, max_results>>,
                 key |-> openalex_cache_key(query, exact_phrase, filter_field, max_results),
                 upstreams |-> Upstreams(OpenAlexPayloads, max_results),
                 results |-> OpenAlexResults, error |-> OpenAlexErrors])

\* crossref_search(query, filter_type, rows)
CrossrefSearch(query, filter_type, rows) ==
    ReadThrough([op |-> "crossref_search", tool |-> "crossref",
                 params |-> <<query, filter_type, rows>>,
                 key |-> crossref_cache_key(query, filter_type, rows),
                 upstreams |-> Upstreams(CrossrefPayloads, rows),
                 results |-> CrossrefResults, error |-> CrossrefErrors])

\* The values a direct store of a tool's pair is given.
StoreValues(tool) ==
    {<<>>} \cup
    CASE tool = "web_search" -> {WebResults[<<WebHit1, WebHit2>>]}
      [] tool = "openalex" -> {OpenAlexResults[<<Work1, Work2>>]}
      [] tool = "crossref" -> {CrossrefResults[<<Item1, Item2>>]}

\* The cache and the providers on their own: nothing else is running.
FnIdle == [f |-> "idle"]
RaceIdle == [on |-> FALSE]
RunIdle == [on |-> FALSE]
Alone == UNCHANGED <<fn, race, run>>

Next ==
    \/ \E pair \in Pairs, wf \in WriteFaults : \E results \in StoreValues(pair[1]) :
          Store(pair, results, wf) /\ Alone
    \/ \E pair \in Pairs, rf \in BOOLEAN : Lookup(pair, rf) /\ Alone
    \/ \E failing \in SUBSET DOMAIN files, order \in Orders(DOMAIN files) :
          Clear(order, failing) /\ Alone
    \/ \E path \in DOMAIN files : Corrupt(path) /\ Alone
    \/ \E p \in WebParams : WebSearch(p[1], p[2]) /\ Alone
    \/ \E p \in OpenAlexParams : OpenAlexSearch(p[1], p[2], p[3], p[4]) /\ Alone
    \/ \E p \in CrossrefParams : CrossrefSearch(p[1], p[2], p[3]) /\ Alone

InitAlone == Init /\ fn = FnIdle /\ race = RaceIdle /\ run = RunIdle

Spec == InitAlone /\ [][Next]_vars

----------------------------------------------------------------------------
(* Properties *)

ProviderOps == {"web_search", "openalex_search", "crossref_search"}

\* What load_from_cache returns for a pair now, the file being readable.
Load(pair) == load_from_cache(files, pair[1], pair[2], FALSE)

\* C1: lookup(tool, params) returns a value equal to the value most recently
\* stored for that pair, whatever was stored for other pairs, by direct stores
\* or by provider calls: for every pair whose last store wrote its text in
\* full, and whose file nothing damaged or deleted since, load_from_cache
\* returns that value, and a lookup just performed returned it.
C1_RoundTrip ==
    /\ \A pair \in DOMAIN stored :
          stored[pair].intact => Load(pair) = Value(stored[pair].val)
    /\ (/\ last.op = "lookup" /\ ~last.rf
        /\ <<last.tool, last.key>> \in DOMAIN stored
        /\ stored[<<last.tool, last.key>>].intact)
       => last.ret = Value(stored[<<last.tool, last.key>>].val)

\* A lookup returned the non-empty value stored for its pair while another
\* pair holds a different stored value.
C1_Witness ==
    /\ last.op = "lookup" /\ ~last.rf
    /\ <<last.tool, last.key>> \in DOMAIN stored
    /\ stored[<<last.tool, last.key>>].intact
    /\ last.ret.st = "value" /\ last.ret.val # <<>>
    /\ \E other \in DOMAIN stored :
          /\ other # <<last.tool, last.key>>
          /\ stored[other].intact
          /\ stored[other].val # last.ret.val

\* C2: two calls of a provider with the same query text and different option
\* values never share a cache entry: a call is never served the entry that
\* the call just before it, with other option values, stored.
C2_NoSharedEntry == ~last.shares

\* C3: a provider call that misses the cache and whose upstream request fails
\* returns exactly one record, with source "Error" and a non-empty snippet,
\* and does not raise.
C3_UpstreamFailure ==
    (last.op \in ProviderOps /\ last.net /\ last.up \in {"neterr", "http", "malformed"})
    => /\ last.ret.st = "value"
       /\ Len(last.ret.val) = 1
       /\ last.ret.val[1].source = "Error"
       /\ last.ret.val[1].snippet # ""

\* web_search met an upstream failure whose exception has an empty message
\* and returned the error record.
C3_Witness ==
    /\ last.op = "web_search" /\ last.net /\ last.up = "neterr" /\ last.msg = ""
    /\ last.ret.st = "value" /\ last.ret.val[1].source = "Error"

\* C4: lookup returns nothing and never raises when no entry is persisted,
\* when the persisted data cannot be parsed and when the read fails; a
\* provider call that meets such an entry goes on to the upstream request as
\* on a miss.
Unusable(pair) ==
    \/ PathOf(pair) \notin DOMAIN files
    \/ ~Decodable(files[PathOf(pair)])
    \/ ~JsonParse(files[PathOf(pair)]).ok

C4_LookupNeverRaises ==
    /\ (last.op = "lookup" /\ (last.rf \/ Unusable(<<last.tool, last.key>>)))
       => last.ret = None
    /\ (last.op \in ProviderOps /\ last.cached.st # "value")
       => (last.cached = None /\ last.net)

\* C5: a failure of the cache write is swallowed: the provider call whose
\* upstream request succeeded returns the freshly fetched results, not an
\* error record and not an exception, whether the write failed at open() or
\* in the middle; and save_to_cache itself does not raise.
C5_WriteFailureSwallowed ==
    /\ (last.op \in ProviderOps /\ last.net /\ last.up = "ok" /\ last.wf # "none")
       => /\ last.ret = Value(last.fresh)
          /\ \A i \in 1..Len(last.ret.val) : last.ret.val[i].source # "Error"
    /\ (last.op = "store" /\ last.wf # "none") => last.ret = None

\* A provider fetched a non-empty result and the write of it broke off midway.
C5_Witness ==
    /\ last.op = "openalex_search" /\ last.net /\ last.up = "ok"
    /\ last.wf = "mid" /\ last.fresh # <<>>
    /\ last.ret = Value(last.fresh)

\* C6: after clear() returns, lookup of every pair returns nothing and the
\* count returned is the number of entries that existed before the call
\* (when no deletion failed; C7 is the case where one did).
C6_ClearEmpties ==
    (last.op = "clear" /\ last.failed = {})
    => /\ last.count = Cardinality(last.before)
       /\ \A pair \in Pairs : Load(pair) = None

\* clear() deleted two entries.
C6_Witness ==
    /\ last.op = "clear" /\ last.failed = {}
    /\ Cardinality(last.before) = 2 /\ last.count = 2

\* C7: when a deletion fails during clear(), clear() still attempts the other
\* entries, does not raise and returns the number it removed; the entries it
\* could not delete are the only ones left.
C7_ClearPartial ==
    (last.op = "clear" /\ last.failed # {})
    => /\ last.ret # Raised
       /\ last.count = Cardinality(last.before \ last.failed)
       /\ DOMAIN files = last.failed

\* clear() met two entries, could not delete one and deleted the other.
C7_Witness ==
    /\ last.op = "clear"
    /\ Cardinality(last.before) = 2 /\ Cardinality(last.failed) = 1
    /\ last.count = 1 /\ DOMAIN files = last.failed

\* C8: for every pair no store has written for since its file was last
\* deleted, lookup returns nothing, whatever is stored under other pairs.
C8_NeverStored ==
    /\ \A pair \in Pairs \ DOMAIN stored : Load(pair) = None
    /\ (last.op = "lookup" /\ <<last.tool, last.key>> \notin DOMAIN stored)
       => last.ret = None

\* A lookup of a pair never stored returned nothing while other pairs of the
\* same tool and of another tool hold entries.
C8_Witness ==
    /\ last.op = "lookup" /\ last.ret = None
    /\ <<last.tool, last.key>> \notin DOMAIN stored
    /\ \E a, b \in DOMAIN stored :
          /\ a[1] = last.tool /\ b[1] # last.tool
          /\ stored[a].intact /\ stored[b].intact
          /\ stored[a].val # <<>>

\* C9: whenever the cache holds an entry for the key of a provider call, the
\* call returns exactly the persisted sequence and issues no upstream request.
C9_HitServedVerbatim ==
    (last.op \in ProviderOps /\ ~last.rf /\ last.cached.st = "value")
    => (~last.net /\ last.ret = last.cached)

\* C10: after a miss whose upstream request succeeded and whose result was
\* stored, the next call with identical parameters is served from the cache:
\* it returns the same sequence and issues no upstream request.
C10_SecondCallServed ==
    (last.op \in ProviderOps /\ last.follows /\ ~last.rf)
    => (last.hit /\ ~last.net /\ last.ret = last.prevRet)

\* The text of a cache file is one load_from_cache returns a value for.
Parseable(text) == Decodable(text) /\ json_load(text).ok

\* C11: a cache entry is immutable once created: a provider call whose read
\* of the cache did not fail leaves every persisted entry as it is; no call
\* writes a key that already holds an entry.
C11_EntryImmutable ==
    [][(last'.op \in ProviderOps /\ ~last'.rf)
       => \A path \in DOMAIN files :
             Parseable(files[path])
             => (path \in DOMAIN files' /\ files'[path] = files[path])]_vars

\* C25 as stated: a stored empty list is replayed as a hit at some provider
\* call sites and treated as a miss at others.
C25_EmptyListInconsistent ==
    (last.op \in ProviderOps /\ last.cached = Value(<<>>))
    => \E a, b \in ProviderOps :
          cached_hit(a, Value(<<>>)) /\ ~cached_hit(b, Value(<<>>))

\* C25: a stored empty list is treated alike at the three provider call
\* sites: it is a miss, and the call issues the upstream request again.
C25_EmptyListAlwaysMiss ==
    (last.op \in ProviderOps /\ last.cached = Value(<<>>))
    => /\ ~last.hit /\ last.net
       /\ \A op \in ProviderOps : ~cached_hit(op, Value(<<>>))

\* A call of each kind can meet a stored empty list; here openalex_search did
\* and went upstream.
C25_Witness ==
    /\ last.op = "openalex_search" /\ last.cached = Value(<<>>)
    /\ ~last.hit /\ last.net

\* A call returned the synthetic record with source "Error".
IsErrorResult(ret) ==
    ret.st = "value" /\ Len(ret.val) = 1 /\ ret.val[1].source = "Error"

\* No entry that can be loaded holds a record with source "Error".
NoErrorIn(fs) ==
    \A path \in DOMAIN fs :
       Parseable(fs[path])
       => \A i \in DOMAIN json_load(fs[path]).val :
             json_load(fs[path]).val[i].source # "Error"

\* C26: a provider call that returns the error record leaves every cache file
\* as it was; no entry ever holds an error record; and the next call with the
\* same parameters issues the upstream request again (the cache being read by
\* both calls as it is: the first call's read did not fail, and the entry's
\* file has not been damaged meanwhile).
C26_ErrorNeverCached ==
    [][/\ (last'.op \in ProviderOps /\ IsErrorResult(last'.ret)) => files' = files
       /\ NoErrorIn(files')
       /\ (/\ last.op \in ProviderOps /\ IsErrorResult(last.ret) /\ ~last.rf
           /\ last'.op = last.op /\ last'.params = last.params
           /\ PathOf(<<last.tool, last.key>>) \in DOMAIN files
                 => Decodable(files[PathOf(<<last.tool, last.key>>)]))
          => last'.net]_vars

\* A call met its own entry holding an empty list beside another entry, asked
\* upstream, and returned the error record.
C26_Witness ==
    /\ last.op \in ProviderOps /\ IsErrorResult(last.ret)
    /\ last.cached = Value(<<>>)
    /\ Cardinality(DOMAIN files) = 2
    /\ NoErrorIn(files)

----------------------------------------------------------------------------
(* The functions of the program on their own: FnSpec draws an input and     *)
(* applies the function to it.                                              *)

\* The largest position an inverted index lists.
MaxPos == 3

\* The parameters key derivation is applied to.
KeyQueries == {"solar", "wind"}
KeyFilterFields == {NoneV, Some("title")}
KeyFilterTypes == {NoneV, Some("book")}
KeyCaps == {2, 3}

KeyParams(tool) ==
    CASE tool = "web_search" -> KeyQueries \X KeyCaps
      [] tool = "openalex" -> KeyQueries \X BOOLEAN \X KeyFilterFields \X KeyCaps
      [] tool = "crossref" -> KeyQueries \X KeyFilterTypes \X KeyCaps

\* The cache_key a provider derives from its parameters.
cache_key(tool, p) ==
    CASE tool = "web_search" -> web_cache_key(p[1], p[2])
      [] tool = "openalex" -> openalex_cache_key(p[1], p[2], p[3], p[4])
      [] tool = "crossref" -> crossref_cache_key(p[1], p[2], p[3])

\* The upstream items the transformations are applied to: every field
\* present or absent.
WebHits ==
    {[title |-> t, href |-> h, body |-> b] :
        t \in {NoneV, Some("Sun")}, h \in {NoneV, Some("http://sun")},
        b \in {NoneV, Some("cells")}}

Works ==
    {[authorships |-> au, doi |-> d, landing |-> l, title |-> t, abstract |-> ab,
      publication_date |-> pd] :
        au \in {<<>>, <<Some("Ada"), NoneV, Some("Bo")>>},
        d \in {NoneV, Some(""), Some("10.1/x")},
        l \in {NoneV, Some(""), Some("http://land")},
        t \in {NoneV, Some("PV")},
        ab \in {[some |-> FALSE, index |-> <<>>],
                [some |-> TRUE, index |-> <<<<"alpha", <<0, 2>>>>, <<"beta", <<1>>>>>>]},
        pd \in {NoneV, Some("2020-01-02")}}

Items ==
    {[author |-> au, print |-> pr, online |-> on,
      container |-> c, publisher |-> pb, title |-> t, DOI |-> d, abstract |-> ab] :
        au \in {<<>>, <<[given |-> Some("Ada"), family |-> Some("Low")]>>},
        pr \in {[some |-> FALSE, date_parts |-> <<>>], [some |-> TRUE, date_parts |-> <<>>],
                [some |-> TRUE, date_parts |-> <<<<>>>>],
                [some |-> TRUE, date_parts |-> <<<<2020, 5>>>>]},
        on \in {[some |-> FALSE, date_parts |-> <<>>],
                [some |-> TRUE, date_parts |-> <<<<2019>>>>]},
        c \in {<<>>, <<"J. Sun">>}, pb \in {NoneV, Some("ACM")},
        t \in {<<>>, <<"PV">>}, d \in {NoneV, Some("10.1/x")},
        ab \in {NoneV, Some("abs")}}

UpstreamItems(tool) ==
    CASE tool = "web_search" -> WebHits
      [] tool = "openalex" -> Works
      [] tool = "crossref" -> Items

\* The record a provider makes of one upstream item.
format_item(tool, item) ==
    CASE tool = "web_search" -> web_format(item)
      [] tool = "openalex" -> openalex_format(item)
      [] tool = "crossref" -> crossref_format(item)

\* The author lists of an upstream item: up to MaxAuthors authors, each with a
\* name or without one.
MaxAuthors == 5
AuthorLists ==
    UNION {[1..n -> {NoneV, Some("Ada"), Some("Bo")}] : n \in 0..MaxAuthors}

\* The upstream item of a scholarly provider whose authors are these.
ItemOfAuthors(tool, authors) ==
    CASE tool = "openalex" -> [Work2 EXCEPT !.authorships = authors]
      [] tool = "crossref" ->
           [Item2 EXCEPT !.author = [i \in 1..Len(authors) |->
                                        [given |-> NoneV, family |-> authors[i]]]]

\* The texts and maximum lengths sanitize_filename is applied to.
MaxText == 4
FilenameTexts == UNION {[1..n -> Chars] : n \in 0..MaxText}
FilenameLengths == 0..(MaxText + 1)

\* abstract_inverted_index values: each position 0..MaxPos is listed under
\* one word or under none; the dict holds the words in either order and each
\* word's positions ascending or descending.
Slots == [0..MaxPos -> {"", "alpha", "beta"}]

RECURSIVE PositionsOf(_, _, _)
PositionsOf(slots, word, from) ==
    IF from > MaxPos THEN <<>>
    ELSE (IF slots[from] = word THEN <<from>> ELSE <<>>)
         \o PositionsOf(slots, word, from + 1)

Reverse(seq) == [i \in 1..Len(seq) |-> seq[Len(seq) + 1 - i]]

IndexOf(slots, words, descending) ==
    LET entry(w) == <<w, IF descending THEN Reverse(PositionsOf(slots, w, 0))
                         ELSE PositionsOf(slots, w, 0)>>
        listed == SelectSeq(words, LAMBDA w : \E p \in 0..MaxPos : slots[p] = w)
    IN  [i \in 1..Len(listed) |-> entry(listed[i])]

FnInputs ==
    {[f |-> "keys", tool |-> t, a |-> pa, b |-> pb, done |-> FALSE] :
        t \in Tools, pa \in UNION {KeyParams(t2) : t2 \in Tools},
        pb \in UNION {KeyParams(t2) : t2 \in Tools}}
    \cup {[f |-> "format", tool |-> t, item |-> i, done |-> FALSE] :
        t \in Tools, i \in UNION {UpstreamItems(t2) : t2 \in Tools}}
    \cup {[f |-> "abstract", slots |-> sl, index |-> IndexOf(sl, w, d), done |-> FALSE] :
        sl \in Slots, w \in {<<"alpha", "beta">>, <<"beta", "alpha">>}, d \in BOOLEAN}
    \cup {[f |-> "filename", text |-> tx, max_length |-> m, done |-> FALSE] :
        tx \in FilenameTexts, m \in FilenameLengths}
    \cup {[f |-> "authors", tool |-> t, authors |-> au, done |-> FALSE] :
        t \in {"openalex", "crossref"}, au \in AuthorLists}

FnInit ==
    /\ Init
    /\ race = RaceIdle
    /\ run = RunIdle
    /\ fn \in {i \in FnInputs :
                 /\ i.f = "keys" => (i.a \in KeyParams(i.tool) /\ i.b \in KeyParams(i.tool))
                 /\ i.f = "format" => i.item \in UpstreamItems(i.tool)}

\* cache_key = f"..." in a provider, for two parameter tuples.
DeriveKeys ==
    /\ fn.f = "keys" /\ ~fn.done
    /\ fn' = [f |-> "keys", tool |-> fn.tool, a |-> fn.a, b |-> fn.b, done |-> TRUE,
              keyA |-> cache_key(fn.tool, fn.a), keyB |-> cache_key(fn.tool, fn.b),
              again |-> cache_key(fn.tool, fn.a)]
    /\ UNCHANGED <<files, stored, last, race, run>>

\* The body of a provider's loop over the payload, for one item.
FormatItem ==
    /\ fn.f = "format" /\ ~fn.done
    /\ fn' = [f |-> "format", tool |-> fn.tool, item |-> fn.item, done |-> TRUE,
              rec |-> format_item(fn.tool, fn.item)]
    /\ UNCHANGED <<files, stored, last, race, run>>

\* The reconstruction of an abstract in openalex_search.
ReconstructAbstract ==
    /\ fn.f = "abstract" /\ ~fn.done
    /\ fn' = [f |-> "abstract", slots |-> fn.slots, index |-> fn.index, done |-> TRUE,
              out |-> reconstruct_abstract(fn.index)]
    /\ UNCHANGED <<files, stored, last, race, run>>

\* authors_str of a scholarly provider for one item's authors.
FormatAuthors ==
    /\ fn.f = "authors" /\ ~fn.done
    /\ fn' = [f |-> "authors", tool |-> fn.tool, authors |-> fn.authors, done |-> TRUE,
              out |-> format_item(fn.tool, ItemOfAuthors(fn.tool, fn.authors)).authors]
    /\ UNCHANGED <<files, stored, last, race, run>>

\* sanitize_filename applied to a text.
SanitizeFilename ==
    /\ fn.f = "filename" /\ ~fn.done
    /\ fn' = [f |-> "filename", text |-> fn.text, max_length |-> fn.max_length,
              done |-> TRUE, out |-> sanitize_filename(fn.text, fn.max_length)]
    /\ UNCHANGED <<files, stored, last, race, run>>

FnNext ==
    \/ DeriveKeys
    \/ FormatItem
    \/ ReconstructAbstract
    \/ FormatAuthors
    \/ SanitizeFilename

FnSpec == FnInit /\ [][FnNext]_vars

\* C12: key derivation is deterministic and injective: the same parameters
\* always give the same key string, and two distinct parameter tuples of one
\* provider never give the same key string.
C12_KeysInjective ==
    (fn.f = "keys" /\ fn.done)
    => /\ fn.again = fn.keyA
       /\ (fn.a = fn.b) => (fn.keyA = fn.keyB)
       /\ (fn.a # fn.b) => (fn.keyA # fn.keyB)

\* Which fields of the record have no value in the upstream item.
Absent(tool, item) ==
    CASE tool = "web_search" ->
           [title |-> ~item.title.some, url |-> ~item.href.some,
            snippet |-> ~item.body.some]
      [] tool = "openalex" ->
           [title |-> ~item.title.some,
            url |-> ~item.doi.some /\ ~item.landing.some,
            snippet |-> ~item.abstract.some,
            publication_date |-> ~item.publication_date.some,
            authors |-> item.authorships = <<>>]
      [] tool = "crossref" ->
           [title |-> item.title = <<>>, url |-> ~item.DOI.some,
            snippet |-> ~item.abstract.some, authors |-> item.author = <<>>,
            publication_date |-> ~item.print.some /\ ~item.online.some,
            journal |-> item.container = <<>>, publisher |-> ~item.publisher.some]

\* C19, as stated: every field of every record a provider makes is a string
\* (each is the result of safe_str, an f-string, a join or a literal), and a
\* value absent from the upstream item is the empty string in the record.
C19_AbsentIsEmpty ==
    (fn.f = "format" /\ fn.done)
    => \A field \in DOMAIN fn.rec :
          /\ fn.rec[field] \in STRING
          /\ (field \in DOMAIN Absent(fn.tool, fn.item) /\ Absent(fn.tool, fn.item)[field])
             => fn.rec[field] = ""

\* What the snippet of a record is when the item has no abstract (or body).
SnippetFallback(tool, item) ==
    CASE tool = "web_search" -> ""
      [] tool = "openalex" -> "No abstract available"
      [] tool = "crossref" ->
           IF item.container # <<>> THEN "Published in " \o Head(item.container)
           ELSE IF item.publisher.some THEN "Published by " \o item.publisher.v
           ELSE ""

\* C19, amended: every field of every record a provider makes is a string;
\* a value absent from the upstream item is the empty string in the record,
\* except the snippet, which for an item without abstract is the text "No
\* abstract available" (OpenAlex) or names the journal or publisher when the
\* item has one (CrossRef).
C19_StringsAbsentEmptyButSnippet ==
    (fn.f = "format" /\ fn.done)
    => \A field \in DOMAIN fn.rec :
          /\ fn.rec[field] \in STRING
          /\ (field \in DOMAIN Absent(fn.tool, fn.item) /\ Absent(fn.tool, fn.item)[field])
             => fn.rec[field] = IF field = "snippet" THEN SnippetFallback(fn.tool, fn.item)
                                ELSE ""

\* An OpenAlex work with neither title nor abstract was made into a record.
C19_Witness ==
    /\ fn.f = "format" /\ fn.done /\ fn.tool = "openalex"
    /\ ~fn.item.title.some /\ ~fn.item.abstract.some
    /\ fn.rec.title = "" /\ fn.rec.snippet = "No abstract available"

\* The words of the slots up to the last listed position, joined by spaces.
ExpectedAbstract(slots) ==
    LET listed == {p \in 0..MaxPos : slots[p] # ""}
        top == CHOOSE p \in listed : \A q \in listed : q <= p
    IN  IF listed = {} THEN "" ELSE Join([i \in 1..(top + 1) |-> slots[i - 1]], " ")

\* C20: the abstract rebuilt from an inverted index is the space-joined
\* sequence of length (maximum listed position + 1) whose slot p holds the
\* word p is listed under, and the empty string where p is listed under none.
C20_AbstractReconstruction ==
    (fn.f = "abstract" /\ fn.done) => fn.out = ExpectedAbstract(fn.slots)

\* {"alpha": [0, 2], "beta": [1]} was rebuilt into "alpha beta alpha".
C20_Witness ==
    /\ fn.f = "abstract" /\ fn.done
    /\ fn.index = <<<<"alpha", <<0, 2>>>>, <<"beta", <<1>>>>>>
    /\ fn.out = "alpha beta alpha"

\* The names of the authors that have one, in order.
NamesOf(authors) ==
    LET named == SelectSeq(authors, LAMBDA a : a.some)
    IN  [i \in 1..Len(named) |-> named[i].v]

\* C21: for n names the author string is the first min(n, 3) names joined by
\* ", ", followed by " and (n - 3) more" exactly when n > 3; in both
\* scholarly providers.
C21_AuthorTruncation ==
    (fn.f = "authors" /\ fn.done)
    => LET names == NamesOf(fn.authors)
           n == Len(names)
           listed == CASE n = 0 -> ""
                       [] n = 1 -> names[1]
                       [] n = 2 -> names[1] \o ", " \o names[2]
                       [] n >= 3 -> names[1] \o ", " \o names[2] \o ", " \o names[3]
           more == <<"1", "2", "3", "4", "5", "6">>
       IN  fn.out = listed \o (IF n > 3 THEN " and " \o more[n - 3] \o " more" ELSE "")

\* Five named authors gave three names and " and 2 more".
C21_Witness ==
    /\ fn.f = "authors" /\ fn.done /\ fn.tool = "crossref"
    /\ Len(NamesOf(fn.authors)) = 5
    /\ fn.out = "Ada, Bo, Ada and 2 more"

\* C22: sanitize_filename(text, max_length) has length min(len(text),
\* max_length) and holds only alphanumeric characters and underscores: each
\* alphanumeric character of the text is kept in place, every other character
\* is replaced by one underscore.
C22_SanitizeFilename ==
    (fn.f = "filename" /\ fn.done)
    => /\ Len(fn.out) = (IF Len(fn.text) < fn.max_length THEN Len(fn.text)
                         ELSE fn.max_length)
       /\ \A i \in 1..Len(fn.out) :
             /\ fn.out[i] \in {"a", "7", "e-acute", "_"}
             /\ fn.text[i] \in {"a", "7", "e-acute"} => fn.out[i] = fn.text[i]
             /\ fn.text[i] \in {" ", "/", "_"} => fn.out[i] = "_"

\* "a /7" cut to three characters gave "a__".
C22_Witness ==
    /\ fn.f = "filename" /\ fn.done
    /\ fn.text = <<"a", " ", "/", "7">> /\ fn.max_length = 3
    /\ fn.out = <<"a", "_", "_">>

\* C23: the url of an OpenAlex record is the DOI-derived URL when the work has
\* a DOI, otherwise the landing-page URL of its primary location when there is
\* one, otherwise the empty string.
C23_OpenAlexUrl ==
    (fn.f = "format" /\ fn.done /\ fn.tool = "openalex")
    => LET doi == fn.item.doi
           landing == fn.item.landing
       IN  fn.rec.url =
              IF doi.some /\ doi.v # "" THEN "https://doi.org/" \o doi.v
              ELSE IF landing.some /\ landing.v # "" THEN landing.v
              ELSE ""

\* A work without DOI took the URL of its landing page.
C23_Witness ==
    /\ fn.f = "format" /\ fn.done /\ fn.tool = "openalex"
    /\ ~fn.item.doi.some /\ fn.item.landing = Some("http://land")
    /\ fn.rec.url = "http://land"

\* The text of the date parts the items of the model carry.
DateText(parts) ==
    CASE parts = <<2020, 5>> -> "2020-5"
      [] parts = <<2019>> -> "2019"
      [] parts = <<>> -> ""

\* C24: the publication date of a CrossRef record is built from the print
\* date parts whenever the item has print date parts, from the online date
\* parts only when it has no print date parts, and is the empty string when it
\* has neither.
C24_PrintDatePreferred ==
    (fn.f = "format" /\ fn.done /\ fn.tool = "crossref")
    => LET print == fn.item.print
           online == fn.item.online
       IN  fn.rec.publication_date =
              IF print.some /\ print.date_parts # <<>> THEN DateText(print.date_parts[1])
              ELSE IF online.some /\ online.date_parts # <<>>
                   THEN DateText(online.date_parts[1])
                   ELSE ""

\* An item with both dates took the print date.
C24_Witness ==
    /\ fn.f = "format" /\ fn.done /\ fn.tool = "crossref"
    /\ fn.item.print = [some |-> TRUE, date_parts |-> <<<<2020, 5>>>>]
    /\ fn.item.online = [some |-> TRUE, date_parts |-> <<<<2019>>>>]
    /\ fn.rec.publication_date = "2020-5"

----------------------------------------------------------------------------
(* Two concurrent calls of crossref_search with identical parameters. The   *)
(* calls share nothing but the cache directory; a step is one file          *)
(* operation or one upstream request of one call.                           *)

\* The buffered writer hands the text to the file in pieces of at most this
\* many tokens (a position in a file is a token).
ChunkLen == 40

Callers == {1, 2}
RaceParams == <<"solar", NoneV, 2>>
RaceKey == crossref_cache_key(RaceParams[1], RaceParams[2], RaceParams[3])
RacePath == PathOf(<<"crossref", RaceKey>>)

\* What upstream may answer the racing calls: the answer may change from one
\* request to the next.
RacePayloads == CrossrefPayloads \cup {<<Item2, Item1>>}

\* A byte no writer wrote: the hole a write past the end of a file leaves.
NulByte == <<"nul", "">>

\* load_from_cache of the racing calls: the file may hold any mix of texts.
RaceLoad(fs) ==
    IF RacePath \in DOMAIN fs
    THEN IF ~Decodable(fs[RacePath]) THEN Raised
         ELSE IF JsonParse(fs[RacePath]).ok THEN Value(JsonParse(fs[RacePath]).val)
         ELSE None
    ELSE None

\* write(chunk) at a file offset: the tokens there are replaced, the file
\* grows as needed.
WriteAt(content, offset, chunk) ==
    LET end == offset + Len(chunk)
        len == IF Len(content) > end THEN Len(content) ELSE end
    IN  [i \in 1..len |->
            IF i > offset /\ i <= end THEN chunk[i - offset]
            ELSE IF i <= Len(content) THEN content[i]
            ELSE NulByte]

Caller0 ==
    [pc |-> "lookup", missed |-> FALSE, wrote |-> FALSE, results |-> <<>>,
     text |-> <<>>, offset |-> 0, ret |-> None]

RaceInit ==
    /\ Init
    /\ fn = FnIdle
    /\ run = RunIdle
    /\ race = [on |-> TRUE, call |-> [c \in Callers |-> Caller0], seen |-> None]

RaceStep(c, rec) == race' = [race EXCEPT !.call[c] = rec]

\* cached_results = load_from_cache("crossref", cache_key); if cached_results: return
RaceLookup(c) ==
    LET me == race.call[c]
        cached == RaceLoad(files)
    IN  /\ race.on /\ me.pc = "lookup"
        /\ IF cached.st = "raise"
           THEN RaceStep(c, [me EXCEPT !.pc = "done", !.ret = Raised])
           ELSE IF crossref_cached_hit(cached)
           THEN RaceStep(c, [me EXCEPT !.pc = "done", !.ret = cached])
           ELSE RaceStep(c, [me EXCEPT !.pc = "request", !.missed = TRUE])
        /\ UNCHANGED <<files, stored, last, fn, run>>

\* requests.get ... results.append(result): the upstream request and the
\* transformation of its payload, or the except branch.
RaceRequest(c, up) ==
    LET me == race.call[c]
    IN  /\ race.on /\ me.pc = "request"
        /\ IF up.st # "ok"
           THEN RaceStep(c, [me EXCEPT !.pc = "done",
                                       !.ret = Value(CrossrefErrors[up.msg])])
           ELSE RaceStep(c, [me EXCEPT !.pc = "open",
                                       !.results = crossref_search_results(up.items),
                                       !.text = JsonDump(crossref_search_results(up.items))])
        /\ UNCHANGED <<files, stored, last, fn, run>>

\* open(cache_path, "w"): the file is created or truncated.
RaceOpen(c) ==
    LET me == race.call[c]
    IN  /\ race.on /\ me.pc = "open"
        /\ files' = Put(files, RacePath, <<>>)
        /\ RaceStep(c, [me EXCEPT !.pc = "write", !.offset = 0])
        /\ UNCHANGED <<stored, last, fn, run>>

\* json.dump(results, f) and the close of the file: the next piece of the
\* text goes to the file at this call's offset.
RaceWrite(c) ==
    LET me == race.call[c]
        upto == IF me.offset + ChunkLen < Len(me.text) THEN me.offset + ChunkLen
                ELSE Len(me.text)
    IN  /\ race.on /\ me.pc = "write"
        /\ files' = Put(files, RacePath,
                        WriteAt(files[RacePath], me.offset,
                                SubSeq(me.text, me.offset + 1, upto)))
        /\ RaceStep(c, [me EXCEPT !.offset = upto,
                                  !.pc = IF upto = Len(me.text) THEN "return" ELSE "write",
                                  !.wrote = (upto = Len(me.text))])
        /\ UNCHANGED <<stored, last, fn, run>>

\* return results
RaceReturn(c) ==
    LET me == race.call[c]
    IN  /\ race.on /\ me.pc = "return"
        /\ RaceStep(c, [me EXCEPT !.pc = "done", !.ret = Value(me.results)])
        /\ UNCHANGED <<files, stored, last, fn, run>>

\* load_from_cache("crossref", cache_key) by some other call, at any moment.
RaceObserve ==
    /\ race.on
    /\ race' = [race EXCEPT !.seen = RaceLoad(files)]
    /\ UNCHANGED <<files, stored, last, fn, run>>

RaceNext ==
    \/ \E c \in Callers : RaceLookup(c)
    \/ \E c \in Callers, up \in Upstreams(RacePayloads, RaceParams[3]) : RaceRequest(c, up)
    \/ \E c \in Callers : RaceOpen(c)
    \/ \E c \in Callers : RaceWrite(c)
    \/ \E c \in Callers : RaceReturn(c)
    \/ RaceObserve

RaceSpec == RaceInit /\ [][RaceNext]_vars

\* Both calls missed the cache, both wrote, and both have returned.
BothWrote ==
    /\ race.on
    /\ \A c \in Callers :
          race.call[c].pc = "done" /\ race.call[c].missed /\ race.call[c].wrote

\* C13: when two calls with identical parameters run concurrently, both miss
\* and both write, then once both have finished the persisted entry is the
\* value one of the writers would have stored alone, and both calls returned
\* a result.
C13_RaceHarmless ==
    BothWrote
    => /\ \E c \in Callers : RaceLoad(files) = Value(race.call[c].results)
       /\ \A c \in Callers : race.call[c].ret = Value(race.call[c].results)

\* The values the stores of the racing calls write or have written.
StoredInFull ==
    {Value(race.call[c].results) :
        c \in {d \in Callers : race.call[d].pc \in {"open", "write", "return", "done"}
                                /\ race.call[d].missed /\ race.call[d].text # <<>>}}

\* C27: under any interleaving of stores and lookups on one key, a lookup
\* returns nothing or a value that some store wrote in full; it never returns
\* a partly written or mixed value and never raises.
C27_LookupSeesWholeValues ==
    race.on => (race.seen = None \/ race.seen \in StoredInFull)

----------------------------------------------------------------------------
(* run_pipeline(topic, ...): the four agents in sequence, the process log,
   the two output files.  Runner.run is outside the repository: an agent call
   returns a text or raises.  Writing to the console is taken never to fail;
   opening and writing the two files may fail. *)

Topics == {"solar", "wind power"}
AgentTexts == {"text one", "text two"}
PipelineError == "boom"

Stages == <<"Research", "Evaluation", "Appraisal", "Report">>
StageSet == {Stages[i] : i \in DOMAIN Stages}
StageIndex(s) == CHOOSE i \in DOMAIN Stages : Stages[i] = s

\* Faulty variant: the stage after Research is Appraisal.
next_stage_skip(s) ==
    IF s = "Research" THEN "Appraisal"
    ELSE IF s = "Report" THEN "Done" ELSE Stages[StageIndex(s) + 1]

\* Faulty variant: the run stays in the report step once it has saved.
next_stage_stall(s) ==
    IF s = "Report" THEN "Report" ELSE Stages[StageIndex(s) + 1]

\* The order in which the body of run_pipeline runs its four steps.
next_stage(s) ==
    IF s = "Report" THEN "Done" ELSE Stages[StageIndex(s) + 1]

\* combined_input of the report step.
combined_input(topic, research_output, evaluation_output, appraisal_output) ==
    "Research Summary:\n" \o research_output
    \o "\n\nEvaluation:\n" \o evaluation_output
    \o "\n\nAppraisal:\n" \o appraisal_output
    \o "\n\nCreate a comprehensive research report on: " \o topic

\* Faulty variant: every agent is given the topic.
agent_input_topic(stage, topic, outputs) == topic

\* The second argument of Runner.run in each step.
agent_input(stage, topic, outputs) ==
    CASE stage = "Research" -> topic
      [] stage = "Evaluation" -> outputs["Research"]
      [] stage = "Appraisal" -> outputs["Evaluation"]
      [] stage = "Report" -> combined_input(topic, outputs["Research"],
                                            outputs["Evaluation"], outputs["Appraisal"])

\* Entries of steps_log, one per block of appended lines.
Header(topic) == <<"header", topic>>
StartEntry(stage) == <<"start", stage>>
DetailsEntry == <<"details", "Research">>
CompletedEntry(stage) == <<"completed", stage>>
ErrorEntry(msg) == <<"error", msg>>

start_entries(stage) == <<StartEntry(stage)>>
completion_entries(stage) ==
    IF stage = "Research" THEN <<DetailsEntry, CompletedEntry(stage)>>
    ELSE <<CompletedEntry(stage)>>

\* Faulty variant: the failure handler writes the error note alone.
error_log_only(steps_log, msg) == <<ErrorEntry(msg)>>

\* steps_log after the failure handler's append.
error_log(steps_log, msg) == Append(steps_log, ErrorEntry(msg))

NoFile == [exists |-> FALSE, lines |-> <<>>]
File(lines) == [exists |-> TRUE, lines |-> lines]

\* Faulty variant: a write that fails has put every line on storage.
TruncatedWhole(lines) == lines

\* What a write that fails midway leaves of the lines given to it.
Truncated(lines) == SubSeq(lines, 1, Len(lines) - 1)

\* with open(path, "w") as f: f.write(content)
\* fault "open": open() raises, the file is untouched; "mid": the file is
\* truncated by open() and the write raises before all of it is stored.
WriteFile(file, lines, fault) ==
    CASE fault = "none" -> File(lines)
      [] fault = "open" -> file
      [] fault = "mid" -> File(Truncated(lines))

\* The state of a run at the entry of the try block of run_pipeline.
PipelineStart(topic) ==
    [on |-> TRUE, flag |-> FALSE, topic |-> topic,
     state |-> "Research", phase |-> "begin", visited |-> <<"Research">>,
     calls |-> <<>>, outputs |-> <<>>,
     steps_log |-> <<Header(topic)>>,
     steps_file |-> NoFile, output_file |-> NoFile,
     wholeLogs |-> 0, errorLogs |-> 0,
     raised |-> FALSE, returned |-> FALSE, observed |-> "",
     failure |-> [at |-> "", log |-> <<>>, fault |-> "", began |-> {}, finished |-> {}],
     tool_calls |-> 0, old |-> {}, kept |-> {}, fresh |-> {}, stale |-> FALSE]

HandlerError == "partial log not written"

\* Faulty variant: a failure of the handler's write is what the caller gets.
reraised_handler_failure(msg, fault) == IF fault = "none" THEN msg ELSE HandlerError

\* except: pass, then raise: the exception being handled is raised again,
\* whatever became of the handler's own write.
reraised(msg, fault) == msg

\* except Exception as e: write steps_log with the error note, swallow a
\* failure of that write, re-raise e.
HandleFailure(r, msg, fault) ==
    LET log == error_log(r.steps_log, msg)
    IN  [r EXCEPT !.steps_log = IF fault = "open" THEN @ ELSE log,
                  !.steps_file = WriteFile(@, log, fault),
                  !.errorLogs = IF fault = "none" THEN @ + 1 ELSE @,
                  !.state = "Failed", !.phase = "end", !.raised = TRUE,
                  !.observed = reraised(msg, fault),
                  !.visited = Append(@, "Failed"),
                  !.failure = [at |-> r.state, log |-> r.steps_log, fault |-> fault,
                               began |-> {r.calls[i].agent : i \in DOMAIN r.calls},
                               finished |-> DOMAIN r.outputs]]

PipelineInit ==
    /\ Init
    /\ fn = FnIdle
    /\ race = RaceIdle
    /\ run \in {PipelineStart(topic) : topic \in Topics}

\* A step begins: its start entries are logged and its agent is called.
InvokeAgent ==
    /\ run.on /\ run.state \in StageSet /\ run.phase = "begin"
    /\ run' = [run EXCEPT
                 !.steps_log = @ \o start_entries(run.state),
                 !.calls = Append(@, [agent |-> run.state,
                                      input |-> agent_input(run.state, run.topic,
                                                            run.outputs)]),
                 !.phase = "awaiting"]
    /\ UNCHANGED <<files, stored, last, fn, race>>

\* The agent call returns: final_output is kept, the completion entries are
\* logged, the next step is the current one.
AgentReturns(final_output) ==
    /\ run.on /\ run.state \in StageSet /\ run.phase = "awaiting"
    /\ run' = [run EXCEPT
                 !.outputs = [s \in DOMAIN @ \cup {run.state} |->
                                IF s = run.state THEN final_output ELSE @[s]],
                 !.steps_log = @ \o completion_entries(run.state),
                 !.state = IF run.state = "Report" THEN @ ELSE next_stage(@),
                 !.visited = IF run.state = "Report" THEN @
                             ELSE Append(@, next_stage(run.state)),
                 !.phase = IF run.state = "Report" THEN "saving" ELSE "begin"]
    /\ UNCHANGED <<files, stored, last, fn, race>>

\* The agent call raises.
AgentRaises(fault) ==
    /\ run.on /\ run.state \in StageSet /\ run.phase = "awaiting"
    /\ run' = HandleFailure(run, PipelineError, fault)
    /\ UNCHANGED <<files, stored, last, fn, race>>

\* After the report step: the report is written, then the process log, then
\* the paths are returned.  A write that raises is handled as any failure.
SaveOutputs(reportFault, logFault, fault) ==
    /\ run.on /\ run.state = "Report" /\ run.phase = "saving"
    /\ LET r1 == [run EXCEPT !.output_file =
                                WriteFile(@, <<run.outputs["Report"]>>, reportFault)]
           written == WriteFile(r1.steps_file, r1.steps_log, logFault)
           r2 == [r1 EXCEPT !.steps_file = written,
                            !.wholeLogs = IF written = File(r1.steps_log)
                                          THEN @ + 1 ELSE @]
       IN  run' = IF reportFault # "none" THEN HandleFailure(r1, PipelineError, fault)
                  ELSE IF logFault # "none" THEN HandleFailure(r2, PipelineError, fault)
                  ELSE [r2 EXCEPT !.state = next_stage(@), !.phase = "end",
                                  !.visited = Append(@, next_stage(run.state)),
                                  !.returned = TRUE]
    /\ UNCHANGED <<files, stored, last, fn, race>>

PipelineNext ==
    \/ InvokeAgent
    \/ \E final_output \in AgentTexts : AgentReturns(final_output)
    \/ \E fault \in WriteFaults : AgentRaises(fault)
    \/ \E reportFault \in WriteFaults, logFault \in WriteFaults, fault \in WriteFaults :
          SaveOutputs(reportFault, logFault, fault)

PipelineSpec == PipelineInit /\ [][PipelineNext]_vars

StateOrder == Stages \o <<"Done">>

\* The states a run has been in, a final Failed left out.
VisitedStages ==
    LET v == run.visited
    IN  IF v[Len(v)] = "Failed" THEN SubSeq(v, 1, Len(v) - 1) ELSE v

\* C14: the states are visited in the order Research, Evaluation, Appraisal,
\* Report, Done, none of them twice; the agents are called in that order, each
\* at most once, and an agent is called only after the agents before it have
\* returned; from every state but Done and Failed a failure can follow (of the
\* agent call once it is made, of a file write after the report step).
C14_StrictSequence ==
    run.on =>
      /\ run.state = run.visited[Len(run.visited)]
      /\ VisitedStages # <<>>
      /\ VisitedStages = SubSeq(StateOrder, 1, Len(VisitedStages))
      /\ Len(run.calls) <= Len(Stages)
      /\ \A i \in DOMAIN run.calls :
            /\ run.calls[i].agent = Stages[i]
            /\ \A j \in 1..(i - 1) : Stages[j] \in DOMAIN run.outputs
      /\ DOMAIN run.outputs \subseteq {run.calls[i].agent : i \in DOMAIN run.calls}
      /\ run.state \in StageSet =>
            CASE run.phase = "begin" -> ENABLED InvokeAgent
              [] run.phase = "awaiting" -> ENABLED AgentRaises("none")
              [] run.phase = "saving" -> ENABLED SaveOutputs("open", "none", "none")

\* A run that went through all four steps and returned.
C14_Witness ==
    /\ run.on /\ run.state = "Done" /\ run.returned
    /\ Len(run.calls) = 4
    /\ run.visited = StateOrder

\* The output of the step before step i, once that step's agent is called.
PrecedingOutput(i) == run.outputs[Stages[i - 1]]

\* C15 as stated: the input of the Evaluation, Appraisal and Report agents is
\* the output of the agent of the step before.
C15_InputIsPrecedingOutput ==
    run.on =>
      \A i \in DOMAIN run.calls :
         i > 1 => run.calls[i].input = PrecedingOutput(i)

\* C15: the input of the Evaluation agent is the Research agent's output and
\* the input of the Appraisal agent is the Evaluation agent's output; the
\* input of the Report agent is one text made of the Research, Evaluation and
\* Appraisal outputs, in that order and each under its heading, followed by
\* the request to report on the topic.
C15_InputThreading ==
    run.on =>
      \A i \in DOMAIN run.calls :
         /\ i \in {2, 3} => run.calls[i].input = PrecedingOutput(i)
         /\ i = 4 =>
              run.calls[i].input =
                 "Research Summary:\n" \o run.outputs["Research"]
                 \o "\n\nEvaluation:\n" \o run.outputs["Evaluation"]
                 \o "\n\nAppraisal:\n" \o PrecedingOutput(i)
                 \o "\n\nCreate a comprehensive research report on: " \o run.topic

\* The Report agent has been called after three agents whose outputs differ.
C15_Witness ==
    /\ run.on /\ Len(run.calls) = 4
    /\ run.outputs["Research"] # run.outputs["Evaluation"]
    /\ run.outputs["Evaluation"] # run.outputs["Appraisal"]

\* The entries of the process log file.
Persisted == {run.steps_file.lines[i] : i \in DOMAIN run.steps_file.lines}

\* C16: a run that failed has raised to its caller and has not returned; when
\* the handler's write of the process log went through, the file holds the log
\* as it stood at the failure followed by the error note: the header, the start
\* entries of exactly the steps begun and the completion entries of exactly the
\* steps whose agent returned.
C16_FailureLoggedAndRaised ==
    (run.on /\ run.state = "Failed") =>
      /\ run.raised /\ ~run.returned
      /\ run.failure.fault \in WriteFaults
      /\ run.failure.fault = "none" =>
           /\ run.steps_file = File(Append(run.failure.log, ErrorEntry(PipelineError)))
           /\ Header(run.topic) \in Persisted
           /\ \A s \in StageSet :
                 /\ StartEntry(s) \in Persisted <=> s \in run.failure.began
                 /\ CompletedEntry(s) \in Persisted <=> s \in run.failure.finished

\* The Evaluation agent raised and the handler stored the log.
C16_Witness ==
    /\ run.on /\ run.state = "Failed" /\ run.failure.at = "Evaluation"
    /\ run.failure.fault = "none"
    /\ run.failure.began = {"Research", "Evaluation"}
    /\ run.failure.finished = {"Research"}
    /\ run.steps_file.exists

----------------------------------------------------------------------------
(* main(): the cache-clear flag, then run_pipeline.  The research agent is the
   only agent with tools; the run is followed until its call returns. *)

MaxToolCalls == 2

\* Faulty variant: main never clears the cache.
main_clear_never(clear_cache_flag, cache_dir_exists) == FALSE

\* if args.clear_cache and CACHE_DIR.exists():
main_clear(clear_cache_flag, cache_dir_exists) == clear_cache_flag /\ cache_dir_exists

\* The entries an earlier run may have left in the cache directory.
OldPairs ==
    {<<"web_search", web_cache_key("solar", 2)>>,
     <<"crossref", crossref_cache_key("solar", NoneV, 2)>>}

RECURSIVE OldCache(_)
OldCache(pairs) ==
    IF pairs = {} THEN [files |-> EmptyMap, stored |-> EmptyMap]
    ELSE LET pair == CHOOSE q \in pairs : TRUE
             value == CHOOSE v \in StoreValues(pair[1]) : v # <<>>
             rest == OldCache(pairs \ {pair})
         IN  [files |-> FilesAfterSave(rest.files, pair[1], pair[2], value, "none"),
              stored |-> [q \in DOMAIN rest.stored \cup {pair} |->
                            IF q = pair THEN Intact(value) ELSE rest.stored[q]]]

OldCaches == {OldCache(pairs) : pairs \in SUBSET OldPairs}

\* The state of a run when main() has parsed its arguments.
MainStart(flag, topic, old) ==
    [PipelineStart(topic) EXCEPT !.flag = flag, !.state = "main", !.phase = "args",
                                 !.visited = <<>>, !.steps_log = <<>>, !.old = old]

MainInit ==
    /\ \E cache \in OldCaches :
          /\ files = cache.files
          /\ stored = cache.stored
          /\ run \in {MainStart(flag, topic, DOMAIN cache.files) :
                         flag \in BOOLEAN, topic \in {"solar"}}
    /\ last = Blank
    /\ fn = FnIdle
    /\ race = RaceIdle

\* count = clear_cache(), when the flag is given.
MainClearCache(order, failing) ==
    /\ run.on /\ run.state = "main" /\ run.phase = "args"
    /\ main_clear(run.flag, TRUE)
    /\ Clear(order, failing)
    /\ run' = [run EXCEPT !.phase = "topic", !.kept = failing]
    /\ UNCHANGED <<fn, race>>

\* asyncio.run(run_pipeline(topic, ...)), up to the try block.
MainRunPipeline ==
    /\ run.on /\ run.state = "main"
    /\ run.phase = "topic" \/ (run.phase = "args" /\ ~main_clear(run.flag, TRUE))
    /\ run' = [run EXCEPT !.state = "Research", !.phase = "begin",
                          !.visited = <<"Research">>,
                          !.steps_log = <<Header(run.topic)>>]
    /\ UNCHANGED <<files, stored, last, fn, race>>

\* The research agent calls one of its tools.  fresh: the cache files written by
\* this run; stale: a lookup of this run found a file in the cache directory
\* that this run had not written.
ToolCall ==
    /\ run.on /\ run.state = "Research" /\ run.phase = "awaiting"
    /\ run.tool_calls < MaxToolCalls
    /\ run' = [run EXCEPT
                 !.tool_calls = @ + 1,
                 !.stale = @ \/ ~(DOMAIN files \subseteq run.fresh),
                 !.fresh = IF last'.net /\ last'.up = "ok" /\ last'.wf # "open"
                           THEN @ \cup {PathOf(<<last'.tool, last'.key>>)} ELSE @]
    /\ UNCHANGED <<fn, race>>

MainNext ==
    \/ \E failing \in SUBSET DOMAIN files, order \in Orders(DOMAIN files) :
          MainClearCache(order, failing)
    \/ MainRunPipeline
    \/ run.state = "Research" /\ InvokeAgent
    \/ \E p \in WebParams : WebSearch(p[1], p[2]) /\ ToolCall
    \/ \E p \in OpenAlexParams : OpenAlexSearch(p[1], p[2], p[3], p[4]) /\ ToolCall
    \/ \E p \in CrossrefParams : CrossrefSearch(p[1], p[2], p[3]) /\ ToolCall
    \/ \E final_output \in AgentTexts : run.state = "Research" /\ AgentReturns(final_output)

MainSpec == MainInit /\ [][MainNext]_vars

\* C18: when the flag is given and every deletion went through, the cache
\* directory is empty when the pipeline starts, and from then on it holds only
\* files written during this run, so that no lookup of the run finds any
\* other.
C18_ClearedBeforePipeline ==
    (run.on /\ run.flag /\ run.state # "main" /\ run.kept = {}) =>
       /\ DOMAIN files \subseteq run.fresh
       /\ ~run.stale
       /\ last.op \in ProviderOps /\ last.hit =>
             PathOf(<<last.tool, last.key>>) \in run.fresh

\* The flag was given over a cache holding an entry of an earlier run; a tool
\* call of this run for that entry's key missed and went upstream.
C18_Witness ==
    /\ run.on /\ run.flag /\ run.kept = {} /\ run.old # {}
    /\ run.tool_calls > 0
    /\ last.op \in ProviderOps /\ last.net /\ ~last.hit
    /\ PathOf(<<last.tool, last.key>>) \in run.old

----------------------------------------------------------------------------
(* run_pipeline: the report file, the exception raised, termination *)

\* C28: a run that raised to its caller has written no report file; the
\* report file exists only when the run returned.
C28_NoReportOnFailure ==
    run.on =>
      /\ run.state = "Failed" => ~run.output_file.exists
      /\ run.output_file.exists => run.returned

\* C29: a failure of the handler's write of the process log is swallowed:
\* the run still raises, and what the caller gets is the failure of the step
\* that failed.
C29_OriginalFailureObserved ==
    (run.on /\ run.state = "Failed") =>
       /\ run.raised
       /\ run.observed = PipelineError

\* The Appraisal agent raised, the handler could not open the log file, and
\* the caller got the agent's failure.
C29_Witness ==
    /\ run.on /\ run.state = "Failed" /\ run.failure.at = "Appraisal"
    /\ run.failure.fault = "open" /\ ~run.steps_file.exists
    /\ run.raised /\ run.observed = PipelineError

\* Every agent call returns or raises, and the statements of run_pipeline
\* follow one another.
PipelineFairSpec == PipelineInit /\ [][PipelineNext]_vars /\ WF_vars(PipelineNext)

Terminal == run.state \in {"Done", "Failed"}

\* C30: every run reaches Done or Failed and then stays there; it is in Done
\* only when the Report agent has returned and both the report file and the
\* process log file are written.
C30_Terminates ==
    /\ <>Terminal
    /\ [][Terminal => run'.state = run.state]_vars
    /\ [](run.state = "Done" =>
            /\ "Report" \in DOMAIN run.outputs
            /\ run.output_file = File(<<run.outputs["Report"]>>)
            /\ run.steps_file = File(run.steps_log))

\* A run is in Done with both files written.
C30_Witness ==
    /\ run.on /\ run.state = "Done"
    /\ run.output_file.exists /\ run.steps_file.exists
    /\ DOMAIN run.outputs = StageSet

====
